---------------------------- MODULE Spec2Model ----------------------------
(***************************************************************************)
(* The External-Input ("lca4mdao") parameter layer of LCA4MDAO:            *)
(* lca4mdao/parameter.py (MdaoParameter, MdaoParameterManager) and the     *)
(* push of lca4mdao/component.py (LcaCalculationComponent.compute).        *)
(*                                                                         *)
(* The store is the sqlite file parameters.db.  One writer runs one call   *)
(* at a time.  A state of the model is a committed state of the store: an  *)
(* action is one call, except compute, whose two commits (the pushed       *)
(* amounts, then the expire and the recalculation) are two actions joined  *)
(* by pc.  Inside a call the statements are applied one after the other to *)
(* a context that carries the working store and the pending exception;     *)
(* `with db.atomic()` restores the store it started from when its body     *)
(* raises.  A call ends at pc = "returned" with its report in `last`; the  *)
(* caller takes the report and the writer is idle again.                   *)
(***************************************************************************)
EXTENDS Integers, Sequences, FiniteSets, TLC

(* ------------------------------ bounds -------------------------------- *)
\* amounts given by callers (records, pushed inputs) are 0..MaxAmount
MaxAmount == 1
\* longest batch handed to new_mdao_parameters
MaxBatch == 2
\* length of one insert_many chunk: 100 in the source (parameter.py:249),
\* scaled down so that a batch of MaxBatch records spans two chunks
ChunkSize == 1
\* a storage failure can hit the 1st .. MaxFail-th statement of a transaction
MaxFail == 8
\* longest formula text, in characters
MaxText == 3

(* ------------------------------ values -------------------------------- *)
\* the names callers hand in
Names == {"wood", "steel"}
\* the names a row can have: a rename can give a row a name of its own
Stored == Names \cup {"timber"}
\* formula column NULL / key 'formula' missing
NoFormula == "null"
\* a name that no parameter has, as in the formula "undefined_var*2"
Undefined == "undefined_var"
\* a formula is the text "<name>*2"; it is represented by the name it references
Formulas == Names \cup {Undefined, NoFormula}
\* no row with that name
Absent == [amount |-> 0, formula |-> "absent"]

\* the formula column as text: a formula is the sequence of its characters,
\* the empty sequence where the column is NULL.  WordChars are the characters
\* that \w matches; Idents are the names a rewrite is asked for
WordChars == {"x", "y", "2"}
Alphabet == WordChars \cup {"*"}
NoText == <<>>
Idents == {<<"x">>, <<"x", "2">>, <<"y">>}

\* the result of asteval's interpreter on a formula it cannot evaluate: it
\* prints the error and returns None
None == -1
\* no exchange
NoName == "nobody"

Mdao == "lca4mdao"
Project == "project"
Database == "db"
Activity == "act"
Upstream == {Project, Database, Activity}
GroupNames == {Mdao} \cup Upstream

\* a row of table mdaoparameter is its amount and its formula; its data holds
\* 'mdao_name', the name of the input that compute pushes into it, which is
\* the row's own name.  Group.fresh of a group is "fresh" or "expired", or
\* "none" while the group has no row
NoExc == "none"

(* ------------------------------ state --------------------------------- *)
VARIABLES
    db,     \* the committed store
    pc,     \* "idle", "pushed" (inside compute) or "returned"
    inputs, \* compute's argument while it runs
    last,   \* what the last call did, as its caller and a reader can tell
    stable  \* the last call was a recalculate_all that returned normally

vars == <<db, pc, inputs, last, stable>>

(* ------------------------- the store, as data -------------------------- *)
Defined(P) == {n \in Stored : P[n] # Absent}

\* MdaoParameter.expired: the group row exists and is not fresh
Expired(s) == s.fresh[Mdao] = "expired"

\* <Layer>Parameter.expired for the other layers
UpExpired(s, g) == s.fresh[g] = "expired"

\* a table without the constraint
UniqueNotEnforced(s, n) == FALSE

\* name = TextField(index=True, unique=True): the storage refuses a statement
\* that would leave a second row with the name n; s.rows counts the rows
UniqueViolated(s, n) == s.rows[n] >= 1

(* ---------------- ParameterSet(data).evaluate_and_set_amount_field ----- *)
Refs(P, n) == IF P[n].formula = NoFormula THEN {} ELSE {P[n].formula}

\* names whose references are already evaluated, added until nothing changes
RECURSIVE Order(_, _)
Order(P, seen) ==
    LET more == {n \in Defined(P) \ seen : Refs(P, n) \subseteq seen}
    IN IF more = {} THEN seen ELSE Order(P, seen \cup more)

\* the exception of ParameterSet, or NoExc
EvalError(P) ==
    IF \E n \in Defined(P) : n \in Refs(P, n) THEN "SelfReference"
    ELSE IF \E n \in Defined(P) : ~(Refs(P, n) \subseteq Defined(P)) THEN "MissingName"
    ELSE IF Order(P, {}) # Defined(P) THEN "ParameterError"
    ELSE NoExc

\* an evaluation that takes 0 for a parameter without formula
RECURSIVE ValueFromZero(_, _)
ValueFromZero(P, n) ==
    IF P[n].formula = NoFormula THEN 0
    ELSE ValueFromZero(P, P[n].formula) * 2

RECURSIVE Value(_, _)
Value(P, n) ==
    IF P[n].formula = NoFormula THEN P[n].amount
    ELSE Value(P, P[n].formula) * 2


(* --------------------- a call in progress: the context ------------------ *)
\* s       the store as the writer's connection sees it
\* exc     the pending exception, NoExc while the call runs normally
\* n       statements executed so far
\* depth   nesting of `with db.atomic()` blocks
\* fail    the statement of a transaction that the storage refuses (0: none)
\* wr      a formula, a name or a pushed amount was written
\* exp     Group 'lca4mdao' was expired by this call
\* visits  the groups whose recalculate was called, in order
\* eval    MdaoParameter.recalculate got as far as evaluating the formulas
\* upAt    the other layers' groups that were expired at that moment
\* rolled  a transaction of the call was rolled back
\* in      the arguments of the call
\* ret     the value the call returns, for a call that returns a boolean
\* saved   the exchanges (by their formula) whose record the call saved
\* dirtied the exchanges whose dataset the call marked dirty
\* names   the names the call returns, for a call that returns a set of names
\* stale   the symbol table of the exchanges was read while 'lca4mdao' was
\*         expired
\* arg     the list of records the call was given, as the call leaves it
\* keep: the caller keeps the list it hands in; second: the list is the one
\* the caller handed in before;
\* anc: the names that parameters of the Activity, Database and Project layers
\* have; gone: the exchange whose record is no longer in databases.db
NoArgs == [overwrite |-> TRUE, update |-> FALSE, p |-> "", new |-> "", refs |-> {},
           old |-> NoText, to |-> NoText, anc |-> {}, gone |-> NoName,
           keep |-> FALSE, second |-> FALSE]

Enter(s, fail) ==
    [s |-> s, exc |-> NoExc, n |-> 0, depth |-> 0, fail |-> fail,
     wr |-> FALSE, exp |-> FALSE, visits |-> <<>>, eval |-> FALSE, upAt |-> {},
     rolled |-> FALSE, in |-> NoArgs, ret |-> FALSE, saved |-> {}, dirtied |-> {},
     names |-> {}, arg |-> <<>>, stale |-> FALSE]

Given(c, in) == [c EXCEPT !.in = in]

Raise(c, e) == IF c.exc # NoExc THEN c ELSE [c EXCEPT !.exc = e]

\* one statement that changes the store to s2; inside a transaction the
\* storage may refuse it
Exec(c, s2) ==
    IF c.exc # NoExc THEN c
    ELSE IF c.depth > 0 /\ c.n + 1 = c.fail
         THEN [c EXCEPT !.n = @ + 1, !.exc = "StorageFailure"]
         ELSE [c EXCEPT !.n = @ + 1, !.s = s2]

\* what a transaction of parameters.db leaves when its body raised: the store
\* it started from, and the exchange records, which are rows of databases.db,
\* as they are
RollbackLeak(pre, cur) == cur

Rollback(pre, cur) == [pre EXCEPT !.ext = cur.ext]

\* `with db.atomic():` around a body that took c to r
Begin(c) == [c EXCEPT !.depth = @ + 1]

\* a rollback that restores the parameters and leaves the groups' flags
AtomicKeepsFlags(c, r) ==
    IF c.exc # NoExc THEN c
    ELSE IF r.exc = NoExc THEN [r EXCEPT !.depth = c.depth]
    ELSE [r EXCEPT !.depth = c.depth, !.rolled = TRUE,
                   !.s = [r.s EXCEPT !.params = c.s.params]]

Atomic(c, r) ==
    IF c.exc # NoExc THEN c
    ELSE IF r.exc = NoExc THEN [r EXCEPT !.depth = c.depth]
    ELSE LET back == Rollback(c.s, r.s)
             undone == back.params = c.s.params /\ back.fresh = c.s.fresh
         IN [r EXCEPT !.depth = c.depth, !.s = back, !.rolled = TRUE,
                      !.wr  = IF undone THEN c.wr ELSE r.wr,
                      !.exp = IF undone THEN c.exp ELSE r.exp]

(* ------------------------------ Group ---------------------------------- *)
\* Group.get_or_create(name=g)[0].expire()
GroupExpire(c, g) ==
    LET r == Exec(c, [c.s EXCEPT !.fresh[g] = "expired"])
    IN IF r.exc = NoExc /\ g = Mdao THEN [r EXCEPT !.exp = TRUE] ELSE r

\* a freshen that does not reach the group row
GroupFreshenSkipped(c, g) == Exec(c, c.s)

\* Group.get_or_create(name=g)[0].freshen()
GroupFreshen(c, g) == Exec(c, [c.s EXCEPT !.fresh[g] = "fresh"])

\* the groups with a GroupDependency row on g.  A Database group depends on
\* 'project', an Activity group on its database and on 'project'; the rows
\* that depend on 'lca4mdao' are those the store holds
Dependents(s, g) ==
    IF g = Project THEN {Database, Activity}
    ELSE IF g = Database THEN {Activity}
    ELSE IF g = Mdao THEN s.deps
    ELSE {}

\* an expire_downstream that reaches no group
ExpireDownstreamSkipped(c, g) == Exec(c, c.s)

\* ParameterBase.expire_downstream(g): one UPDATE of the group rows that exist
ExpireDownstream(c, g) ==
    Exec(c, [c.s EXCEPT !.fresh = [h \in GroupNames |->
                IF h \in Dependents(c.s, g) /\ c.s.fresh[h] # "none"
                THEN "expired" ELSE c.s.fresh[h]]])

(* ---------------------- MdaoParameter.recalculate ----------------------- *)
\* the UPDATE statements of the loop, one per key of data
RECURSIVE UpdateAmounts(_, _, _)
UpdateAmounts(c, P, todo) ==
    IF todo = {} THEN c
    ELSE LET k == CHOOSE x \in todo : TRUE
         IN UpdateAmounts(
                Exec(c, [c.s EXCEPT !.params[k].amount = Value(P, k)]),
                P, todo \ {k})

\* a recompute that flips the group to fresh before it evaluates
RecomputeFreshenFirst(c) ==
    IF c.exc # NoExc THEN c
    ELSE LET f == GroupFreshen(c, Mdao)
             P == f.s.params
             e == EvalError(P)
             seen == [f EXCEPT !.eval = TRUE,
                               !.upAt = {g \in Upstream : UpExpired(f.s, g)}]
         IN IF Defined(P) = {} THEN f
            ELSE IF e # NoExc THEN Raise(seen, e)
            ELSE Atomic(seen,
                   ExpireDownstream(UpdateAmounts(Begin(seen), P, Defined(P)), Mdao))

\* lines 83-93: load, evaluate, then one transaction for the amounts, the
\* freshen and the expiry of the dependents
Recompute(c) ==
    IF c.exc # NoExc THEN c
    ELSE LET P == c.s.params
             e == EvalError(P)
             seen == [c EXCEPT !.eval = TRUE,
                               !.upAt = {g \in Upstream : UpExpired(c.s, g)}]
         IN IF Defined(P) = {} THEN c
            ELSE IF e # NoExc THEN Raise(seen, e)
            ELSE Atomic(seen,
                   ExpireDownstream(
                     GroupFreshen(
                       UpdateAmounts(Begin(seen), P, Defined(P)), Mdao), Mdao))

Recalculate(c) ==
    IF c.exc # NoExc THEN c
    ELSE IF ~Expired(c.s) THEN c
    ELSE Recompute(c)


(* ----------------- MdaoParameter.recalculate_exchanges ------------------ *)
\* a symbol table that adds the names of the other layers
StaticLayered(c) ==
    [n \in Defined(c.s.params) \cup c.in.anc |->
        IF n \in Defined(c.s.params) THEN c.s.params[n].amount ELSE 0]

\* MdaoParameter.static(): {name: amount} of the rows of mdaoparameter
Static(c) == [n \in Defined(c.s.params) |-> c.s.params[n].amount]

\* interpreter(obj.formula) on the symbol table; the formula of an exchange is
\* the name n
Interpreted(table, n) == IF n \in DOMAIN table THEN table[n] ELSE None

\* databases.set_dirty(exc.output_database)
SetDirty(c, n) == IF c.exc # NoExc THEN c ELSE [c EXCEPT !.dirtied = @ \cup {n}]

\* a save that does not reach the record
ExchangeSaveSkipped(c, n, v) == c

\* exc.data['amount'] = v; exc.save(): a row of databases.db
ExchangeSave(c, n, v) ==
    IF c.exc # NoExc THEN c
    ELSE [c EXCEPT !.s.ext[n] = v, !.saved = @ \cup {n}]

\* lines 105-111: the ParameterizedExchange rows of 'lca4mdao' in the order
\* the query yields them; ExchangeDataset.get raises when the record is gone
RECURSIVE WriteExchanges(_, _, _)
WriteExchanges(c, table, todo) ==
    IF c.exc # NoExc \/ todo = <<>> THEN c
    ELSE LET n == Head(todo)
         IN IF n = c.in.gone THEN Raise(c, "DoesNotExist")
            ELSE WriteExchanges(
                   ExchangeSave(SetDirty(c, n), n, Interpreted(table, n)),
                   table, Tail(todo))

\* the ways a query without ORDER BY can yield the rows of S
RECURSIVE Orders(_)
Orders(S) ==
    IF S = {} THEN {<<>>}
    ELSE UNION {{<<x>> \o q : q \in Orders(S \ {x})} : x \in S}

\* the exchanges written without the recalculate of lines 98-99
RecalculateExchangesAsIs(c, order) ==
    WriteExchanges([c EXCEPT !.stale = Expired(c.s)], Static(c), order)

\* lines 98-111: the group is recalculated while it is expired, then the
\* symbol table is read and the exchanges are written
RecalculateExchanges(c, order) ==
    LET r == Recalculate(c)
    IN IF r.exc # NoExc THEN r
       ELSE WriteExchanges([r EXCEPT !.stale = Expired(r.s)], Static(r), order)

(* --------------- MdaoParameterManager.new_mdao_parameters --------------- *)
\* a record of data: 'amount' defaults to 0 and is left out beside a formula
Records ==
    [name : Names, amount : 0..MaxAmount, formula : {NoFormula}]
    \cup [name : Names, amount : {0}, formula : Formulas \ {NoFormula}]

RECURSIVE SeqsUpTo(_, _)
SeqsUpTo(S, k) ==
    IF k = 0 THEN {<<>>}
    ELSE LET shorter == SeqsUpTo(S, k - 1)
         IN shorter \cup {Append(q, x) : q \in shorter, x \in S}

NamesOf(data) == {data[i].name : i \in 1..Len(data)}

\* the batches callers hand in; a batch that repeats a name is rejected for
\* its names alone, so such batches are taken with plain records only
Batches ==
    {data \in SeqsUpTo(Records, MaxBatch) :
        \/ Cardinality(NamesOf(data)) = Len(data)
        \/ \A i \in 1..Len(data) : data[i].amount = 0 /\ data[i].formula = NoFormula}


\* a delete without its where clause
DeleteEvery(c, new) ==
    Exec(c, [c.s EXCEPT !.params = [n \in Stored |-> Absent],
                        !.rows = [n \in Stored |-> 0]])

\* MdaoParameter.delete().where(MdaoParameter.name << tuple(new)).execute()
DeleteNamed(c, new) ==
    Exec(c, [c.s EXCEPT !.params = [n \in Stored |->
                IF n \in new THEN Absent ELSE c.s.params[n]],
                        !.rows = [n \in Stored |-> IF n \in new THEN 0 ELSE @[n]]])

\* MdaoParameter.insert_many(data[idx:idx + 100]).execute(), for idx = from - 1
InsertChunk(c, data, from) ==
    LET upto == IF from + ChunkSize - 1 < Len(data)
                THEN from + ChunkSize - 1 ELSE Len(data)
        rows == [n \in Stored |->
                   IF \E i \in from..upto : data[i].name = n
                   THEN LET i == CHOOSE i \in from..upto : data[i].name = n
                        IN [amount |-> data[i].amount, formula |-> data[i].formula]
                   ELSE c.s.params[n]]
        more == [n \in Stored |-> Cardinality({i \in from..upto : data[i].name = n})]
        r == Exec(c, [c.s EXCEPT !.params = rows,
                                 !.rows = [n \in Stored |-> @[n] + more[n]]])
    IN IF c.exc # NoExc THEN c
       ELSE IF \E n \in Stored : more[n] > 0 /\ (UniqueViolated(c.s, n) \/ more[n] > 1)
       THEN Raise(c, "IntegrityError")
       ELSE IF r.exc = NoExc THEN [r EXCEPT !.wr = TRUE] ELSE r

RECURSIVE InsertChunks(_, _, _)
InsertChunks(c, data, from) ==
    IF from > Len(data) THEN c
    ELSE InsertChunks(InsertChunk(c, data, from), data, from + ChunkSize)

\* an ingest that ends with the expire
IngestBodyNoRecalculate(c, data) ==
    GroupExpire(InsertChunks(DeleteNamed(c, NamesOf(data)), data, 1), Mdao)

\* lines 247-252: delete, insert in chunks, expire, recalculate
IngestBody(c, data) ==
    Recalculate(
      GroupExpire(InsertChunks(DeleteNamed(c, NamesOf(data)), data, 1), Mdao))

\* a key that a record no longer has
Popped == "popped"

\* reformat(ds), lines 228-236: ds.pop takes 'name', 'amount' and 'formula'
\* out of the caller's own dictionaries
Stripped(data) ==
    [i \in 1..Len(data) |-> [name |-> Popped, amount |-> 0, formula |-> NoFormula]]

\* line 221: ds['name'] of a record without the key
KeyMissing(data) == \E i \in 1..Len(data) : data[i].name = Popped

\* a uniqueness test that lets every batch pass
DuplicateNamesIgnored(data) == FALSE

\* lines 221-226: the assert on the names of data
DuplicateNames(data) == Cardinality(NamesOf(data)) # Len(data)

\* a collision test that lets every batch pass
CollidesIgnored(P, data, overwrite) == FALSE

\* lines 237-240: a name of data is stored and overwrite is false
Collides(P, data, overwrite) == NamesOf(data) \cap Defined(P) # {} /\ ~overwrite

\* the ingest without its enclosing transaction
NewParametersUnwrapped(c, data, overwrite) ==
    LET d == [c EXCEPT !.arg = Stripped(data)]
    IN IF KeyMissing(data) THEN Raise([c EXCEPT !.arg = data], "KeyError")
       ELSE IF DuplicateNames(data) THEN Raise([c EXCEPT !.arg = data], "AssertionError")
       ELSE IF Collides(c.s.params, data, overwrite) THEN Raise(d, "ValueError")
       ELSE IngestBody(d, data)

NewParameters(c, data, overwrite) ==
    LET d == [c EXCEPT !.arg = Stripped(data)]
    IN IF KeyMissing(data) THEN Raise([c EXCEPT !.arg = data], "KeyError")
       ELSE IF DuplicateNames(data) THEN Raise([c EXCEPT !.arg = data], "AssertionError")
       ELSE IF Collides(c.s.params, data, overwrite) THEN Raise(d, "ValueError")
       ELSE Atomic(d, IngestBody(Begin(d), data))


(* -------------------------- MdaoParameter.save -------------------------- *)
\* a save that writes the row and leaves the group's flag alone
SaveRowNoExpire(c, n, row, create) ==
    IF create /\ UniqueViolated(c.s, n) THEN Raise(c, "IntegrityError")
    ELSE LET r == Exec(c, [c.s EXCEPT !.params[n] = row,
                                      !.rows[n] = IF create THEN @ + 1 ELSE @])
         IN IF r.exc = NoExc THEN [r EXCEPT !.wr = TRUE] ELSE r

\* p.save() of an instance named n holding row: the group is expired, then
\* the row is written; an INSERT of a name that exists breaks UNIQUE(name)
SaveRow(c, n, row, create) ==
    LET e == GroupExpire(c, Mdao)
    IN IF create /\ UniqueViolated(e.s, n) THEN Raise(e, "IntegrityError")
       ELSE LET r == Exec(e, [e.s EXCEPT !.params[n] = row,
                                         !.rows[n] = IF create THEN @ + 1 ELSE @])
            IN IF r.exc = NoExc THEN [r EXCEPT !.wr = TRUE] ELSE r

(* --------------- MdaoParameter.update_formula_parameter_name ------------ *)
\* alter_parameter_formula on the rows whose formula contains old
Rewritten(P, old, new) ==
    [n \in Stored |->
        IF P[n] # Absent /\ P[n].formula = old
        THEN [P[n] EXCEPT !.formula = new] ELSE P[n]]

\* the rewrite without the expire of line 177
UpdateFormulaNameNoExpire(c, old, new) ==
    LET P == c.s.params
        r == Exec(c, [c.s EXCEPT !.params = Rewritten(P, old, new)])
    IN IF r.exc = NoExc /\ Rewritten(P, old, new) # P
       THEN [r EXCEPT !.wr = TRUE] ELSE r

UpdateFormulaName(c, old, new) ==
    LET P == c.s.params
        r == Exec(c, [c.s EXCEPT !.params = Rewritten(P, old, new)])
        w == IF r.exc = NoExc /\ Rewritten(P, old, new) # P
             THEN [r EXCEPT !.wr = TRUE] ELSE r
    IN GroupExpire(w, Mdao)

(* -------- update_formula_parameter_name on the text of the formulas ----- *)
\* cls.formula.contains(old): the text has old as a substring
Contains(f, old) ==
    \E i \in 1..Len(f) : i + Len(old) - 1 <= Len(f) /\ SubSeq(f, i, i + Len(old) - 1) = old

\* \b before position i of f: one side is a \w character and the other is not
WordAt(f, i) == i >= 1 /\ i <= Len(f) /\ f[i] \in WordChars

Boundary(f, i) == WordAt(f, i - 1) # WordAt(f, i)

\* old replaced wherever it occurs, inside longer identifiers too
RECURSIVE ReSubAnywhere(_, _, _, _)
ReSubAnywhere(f, old, new, i) ==
    IF i > Len(f) THEN <<>>
    ELSE IF i + Len(old) - 1 <= Len(f) /\ SubSeq(f, i, i + Len(old) - 1) = old
         THEN new \o ReSubAnywhere(f, old, new, i + Len(old))
         ELSE <<f[i]>> \o ReSubAnywhere(f, old, new, i + 1)

\* re.sub(r"\b{}\b".format(old), new, formula), scanning from position i:
\* the leftmost matches, which do not overlap
RECURSIVE ReSub(_, _, _, _)
ReSub(f, old, new, i) ==
    IF i > Len(f) THEN <<>>
    ELSE IF /\ i + Len(old) - 1 <= Len(f)
            /\ SubSeq(f, i, i + Len(old) - 1) = old
            /\ Boundary(f, i) /\ Boundary(f, i + Len(old))
         THEN new \o ReSub(f, old, new, i + Len(old))
         ELSE <<f[i]>> \o ReSub(f, old, new, i + 1)

\* alter_parameter_formula(p, old, new) on the rows the query selects,
\* bulk_update of their formulas, then the expire of line 177
UpdateFormulaText(c, old, new) ==
    LET T == c.s.texts
        out == [n \in Stored |->
                  IF Contains(T[n], old) THEN ReSub(T[n], old, new, 1) ELSE T[n]]
        r == Exec(c, [c.s EXCEPT !.texts = out])
        w == IF r.exc = NoExc /\ out # T THEN [r EXCEPT !.wr = TRUE] ELSE r
    IN GroupExpire(w, Mdao)

(* ------------------ MdaoParameterManager.recalculate -------------------- *)
Visit(c, kind) == IF c.exc # NoExc THEN c ELSE [c EXCEPT !.visits = Append(@, kind)]

\* what the library's part of a call does is an input of the call: at most
\* one of its steps raises, the recalculate of a group (a formula of that
\* layer does not evaluate) or the recalculate_exchanges of a group (an
\* exchange record or the group's activity parameter is not found)
NoFailure == <<"nobody", "nothing">>
Failures ==
    {NoFailure} \cup {<<g, "recalculate">> : g \in GroupNames}
                \cup {<<g, "recalculate_exchanges">> : g \in {Activity, Mdao}}

\* <Layer>Parameter.recalculate(g) of another layer: its formulas evaluate,
\* or raise; its amounts and the freshen are one transaction
UpRecalculate(c, g, bad) ==
    IF c.exc # NoExc \/ ~UpExpired(c.s, g) THEN c
    ELSE IF bad = <<g, "recalculate">> THEN Raise(c, "MissingName:" \o g)
    ELSE Atomic(c, ExpireDownstream(GroupFreshen(Exec(Begin(c), c.s), g), g))

\* the exchanges of 'lca4mdao' written by ActivityParameter: its symbol table
\* is ActivityParameter.static('lca4mdao', full=True), which has no row of
\* mdaoparameter; the dataset is marked dirty once, after the loop
RECURSIVE WriteFromActivity(_, _)
WriteFromActivity(c, todo) ==
    IF c.exc # NoExc \/ todo = {} THEN c
    ELSE LET n == CHOOSE x \in todo : TRUE
         IN WriteFromActivity(SetDirty(ExchangeSave(c, n, None), n), todo \ {n})

\* ActivityParameter.recalculate_exchanges(g): recalculates g while it is
\* expired, then writes the exchanges of g
UpRecalculateExchanges(c, g, bad) ==
    LET r == UpRecalculate(c, g, bad)
    IN IF r.exc = NoExc /\ bad = <<g, "recalculate_exchanges">>
       THEN Raise(r, "DoesNotExist")
       ELSE IF g = Mdao THEN WriteFromActivity(r, r.s.exch) ELSE r

\* ActivityParameter.recalculate(g); ActivityParameter.recalculate_exchanges(g)
\* for a group the loop over the expired groups reaches
ActivityRecalculate(c, g, bad) ==
    UpRecalculateExchanges(
        Visit(c, IF g = Mdao THEN "activity:lca4mdao" ELSE "activity"), g, bad)

\* the Project group left as it is
StepProjectSkipped(c, bad) == c

\* lines 305-306
StepProject(c, bad) ==
    IF c.exc = NoExc /\ UpExpired(c.s, Project)
    THEN UpRecalculate(Visit(c, "project"), Project, bad) ELSE c

\* 'lca4mdao' recomputed whatever its flag says
StepMdaoEager(c) == Recompute(Visit(c, "mdao"))

\* lines 307-308
StepMdao(c) ==
    IF c.exc = NoExc /\ Expired(c.s) THEN Recalculate(Visit(c, "mdao")) ELSE c

\* lines 309-311
StepDatabase(c, bad) ==
    IF c.exc = NoExc /\ UpExpired(c.s, Database)
    THEN UpRecalculate(Visit(c, "database"), Database, bad) ELSE c

\* lines 312-318: the expired groups are selected once; 'project' and the
\* databases are skipped, 'lca4mdao' is not
StepActivities(c, bad) ==
    LET stale == IF c.exc = NoExc
                 THEN {g \in GroupNames : c.s.fresh[g] = "expired"} ELSE {}
        a == IF Activity \in stale THEN ActivityRecalculate(c, Activity, bad) ELSE c
    IN IF Mdao \in stale THEN ActivityRecalculate(a, Mdao, bad) ELSE a

\* the Database groups before 'lca4mdao'
RecalculateAllDatabaseFirst(c, bad) ==
    StepActivities(StepMdao(StepDatabase(StepProject(c, bad), bad)), bad)

RecalculateAll(c, bad) ==
    StepActivities(StepDatabase(StepMdao(StepProject(c, bad)), bad), bad)

(* --------------- MdaoParameterManager.clean_mdao_parameters ------------- *)
Clean(c) ==
    Atomic(c, Exec(Begin(c), [c.s EXCEPT !.params = [n \in Stored |-> Absent],
                                         !.rows = [n \in Stored |-> 0]]))

(* ---------------------- utilities.cleanup_parameters -------------------- *)
\* the positional arguments that clean_mdao_parameters(self) takes after self
CleanParameters == 0

\* parameters.clean_mdao_parameters(*args): a call with more arguments than
\* the method takes raises TypeError before its body runs
CleanCalled(c, args) ==
    IF Len(args) # CleanParameters THEN Raise(c, "TypeError") ELSE Clean(c)

\* cleanup_parameters(safe): parameters.clean_mdao_parameters(safe)
Cleanup(c, safe) == CleanCalled(c, <<safe>>)

(* --------------- MdaoParameterManager.rename_mdao_parameter ------------- *)
\* MdaoParameter.dependency_chain: the names the group's formulas reference
Needed(P) == UNION {Refs(P, n) : n \in Defined(P)}

\* the layers in refs have formulas that reference the parameter's name
RewriteUpstream(c, refs) ==
    LET a == IF Project \in refs THEN GroupExpire(Exec(c, c.s), Project) ELSE c
        b == IF Database \in refs THEN GroupExpire(Exec(a, a.s), Database) ELSE a
    IN IF Activity \in refs THEN GroupExpire(Exec(b, b.s), Activity) ELSE b

\* parameter.name = new_name; parameter.save()
SaveRenamed(c, p, new) ==
    LET e == GroupExpire(c, Mdao)
    IN IF e.exc # NoExc THEN e
       ELSE IF UniqueViolated(e.s, new) THEN Raise(e, "IntegrityError")
       ELSE LET r == Exec(e, [e.s EXCEPT !.params =
                        [n \in Stored |-> IF n = new THEN e.s.params[p]
                                         ELSE IF n = p THEN Absent
                                         ELSE e.s.params[n]],
                                         !.rows =
                        [n \in Stored |-> IF n = new THEN @[n] + 1
                                         ELSE IF n = p THEN @[n] - 1 ELSE @[n]]])
            IN IF r.exc = NoExc THEN [r EXCEPT !.wr = TRUE] ELSE r

\* a test that refuses no rename
RefusedNever(P, p, update, refs) == FALSE

\* lines 281-286: other formulas use the name and update_dependencies is false;
\* the Activity test is is_dependent_on(name, "project"), and the Activity
\* group has a GroupDependency on 'project'
Refused(P, p, update, refs) == ~update /\ (p \in Needed(P) \/ refs # {})

\* the rename without its enclosing transaction
RenameUnwrapped(c, p, new, update, refs, bad) ==
    LET P == c.s.params
    IN IF p = new THEN c
       ELSE IF ~(Needed(P) \subseteq Defined(P)) THEN Raise(c, "MissingName")
       ELSE IF Refused(P, p, update, refs) THEN Raise(c, "ValueError")
       ELSE RecalculateAll(SaveRenamed(RewriteUpstream(c, refs), p, new), bad)

\* a rename without the test of lines 278-279
RenameAlways(c, p, new, update, refs, bad) ==
    LET P == c.s.params
    IN IF ~(Needed(P) \subseteq Defined(P)) THEN Raise(c, "MissingName")
       ELSE IF Refused(P, p, update, refs) THEN Raise(c, "ValueError")
       ELSE Atomic(c,
              RecalculateAll(SaveRenamed(RewriteUpstream(Begin(c), refs), p, new), bad))

Rename(c, p, new, update, refs, bad) ==
    LET P == c.s.params
    IN IF p = new THEN c
       ELSE IF ~(Needed(P) \subseteq Defined(P)) THEN Raise(c, "MissingName")
       ELSE IF Refused(P, p, update, refs) THEN Raise(c, "ValueError")
       ELSE Atomic(c,
              RecalculateAll(SaveRenamed(RewriteUpstream(Begin(c), refs), p, new), bad))

(* ------------------ LcaCalculationComponent.compute --------------------- *)
\* the UPDATE statements of the push, one per row
RECURSIVE PushAmounts(_, _, _)
PushAmounts(c, in, todo) ==
    IF todo = {} THEN c
    ELSE LET k == CHOOSE x \in todo : TRUE
             r == Exec(c, [c.s EXCEPT !.params[k].amount = in[k]])
         IN PushAmounts(IF r.exc = NoExc THEN [r EXCEPT !.wr = TRUE] ELSE r,
                        in, todo \ {k})

Push(c, in) == Atomic(c, PushAmounts(Begin(c), in, Defined(c.s.params)))

\* lines 35-36
ExpireAndRecalculate(c, order) == RecalculateExchanges(GroupExpire(c, Mdao), order)


(* ------------- the other layers, as the repository drives them ---------- *)
\* GWP.compute: bw.parameters.new_database_parameters(env_data, "sellar"),
\* one transaction that expires and recalculates the Database group, then
\* ActivityParameter.recalculate_exchanges of the Activity group
DatabasePush(c, bad) ==
    LET d == Atomic(c, UpRecalculate(GroupExpire(Exec(Begin(c), c.s), Database),
                                     Database, bad))
    IN UpRecalculateExchanges(d, Activity, bad)

\* bw.parameters.add_exchanges_to_group(g, activity): ParameterizedExchange.save
\* expires the group
AddExchanges(c, g) == GroupExpire(Exec(c, c.s), g)

\* GroupDependency(group=g, depends='lca4mdao').save(): table groupdependency
\* is one of the tables of the store
AddDependency(c, g) == Exec(c, [c.s EXCEPT !.deps = @ \cup {g}])

(* -------------------- MdaoParameter.dependency_chain -------------------- *)
\* a chain that is the names the group lacks, without any error
DependencyChainExternal(c) ==
    [c EXCEPT !.names = Needed(c.s.params) \ Defined(c.s.params)]

\* lines 131-144: [] without data or without symbols, MissingName when a
\* symbol is not a key of data, else the symbols
DependencyChain(c) ==
    LET P == c.s.params
    IN IF Defined(P) = {} \/ Needed(P) = {} THEN c
       ELSE IF Needed(P) \ Defined(P) # {} THEN Raise(c, "MissingName")
       ELSE [c EXCEPT !.names = Needed(P)]

(* ------------------- ActivityParameter.is_dependent_on ------------------ *)
\* ActivityParameter.is_dependent_on(name, g): the Activity groups looked at
\* are those with a GroupDependency on g; refs has Activity when a formula of
\* the Activity group uses the name
ActivityDependentOn(s, refs, g) == Activity \in refs /\ Activity \in Dependents(s, g)

(* ---------------------- MdaoParameter.is_deletable ---------------------- *)
\* the tests of is_deletable: is_dependency_within_group reads the
\* dependency_chain of 'lca4mdao', which raises MissingName; the layers in
\* refs are those whose test finds the name in a formula
IsDeletable(c, p, refs) ==
    LET P == c.s.params
    IN IF ~(Needed(P) \subseteq Defined(P)) THEN Raise(c, "MissingName")
       ELSE [c EXCEPT !.ret = ~(\/ p \in Needed(P)
                                \/ refs \cap {Project, Database} # {}
                                \/ ActivityDependentOn(c.s, refs, Mdao))]

(* -------------------- ExplicitComponentLCA.add_output ------------------- *)
\* activity.new_exchange(input=lca_key, amount=val, formula=lca_name).save();
\* parameters.new_mdao_parameter(lca_name, val, name);
\* parameters.add_exchanges_to_group("lca4mdao", activity): the exchange of the
\* output, with its formula lca_name, becomes a ParameterizedExchange of
\* 'lca4mdao'; each output has an lca_key of its own
AddOutput(c, data) ==
    LET a == NewParameters(c, data, TRUE)
        b == AddExchanges(a, Mdao)
    IN IF b.exc # NoExc THEN b
       ELSE [b EXCEPT !.s.exch = @ \cup NamesOf(data),
                      !.s.ext = [n \in Names |-> IF n = data[1].name
                                                 THEN data[1].amount ELSE @[n]]]

(* ------------------------------ the calls ------------------------------- *)
\* every record of data is stored: its formula, and its amount when it has none
Visible(P, data) ==
    \A i \in 1..Len(data) :
        /\ data[i].name \in Stored
        /\ P[data[i].name] # Absent
        /\ P[data[i].name].formula = data[i].formula
        /\ data[i].formula = NoFormula => P[data[i].name].amount = data[i].amount

\* the symbols of a formula text are its longest runs of \w characters;
\* Pieces(f, i, run) cuts f from position i on into symbols and single other
\* characters, run being the symbol read so far
RECURSIVE Pieces(_, _, _)
Pieces(f, i, run) ==
    IF i > Len(f) THEN (IF run = <<>> THEN <<>> ELSE <<run>>)
    ELSE IF f[i] \in WordChars THEN Pieces(f, i + 1, Append(run, f[i]))
    ELSE (IF run = <<>> THEN <<>> ELSE <<run>>) \o <<(<<f[i]>>)>> \o Pieces(f, i + 1, <<>>)

SymbolsOf(f) ==
    LET p == Pieces(f, 1, <<>>)
    IN {p[i] : i \in {j \in 1..Len(p) : p[j][1] \in WordChars}}

RECURSIVE Joined(_, _, _, _)
Joined(p, old, new, i) ==
    IF i > Len(p) THEN <<>>
    ELSE (IF p[i] = old THEN new ELSE p[i]) \o Joined(p, old, new, i + 1)

\* f with every symbol equal to old replaced by new, and nothing else touched
ReplaceSymbols(f, old, new) == Joined(Pieces(f, 1, <<>>), old, new, 1)

\* the call op returned (or raised) with context c; it was given batch data.
\* was: the flag of 'lca4mdao' before the call; again: the call before was a
\* recalculate_all that returned normally; same, flags: the parameters, the
\* groups' flags are what they were before the call; upFlags: so are the
\* flags of the other layers' groups; dup: data repeats a name;
\* hit: a name of data was stored before the call; ownRef, upRef: a formula
\* of 'lca4mdao', of another layer referenced the name to rename before the
\* call; taken: the new name was stored before the call; moved: the new name
\* is not the old one; sound: the formulas evaluated before the call; oldRef:
\* a formula of 'lca4mdao' references the old name after the call; dangling:
\* a formula of 'lca4mdao' referenced a name that was not stored before the call;
\* result: the value returned; exRef: the formula of a ParameterizedExchange
\* of 'lca4mdao' referenced the name before the call; orphaned: the formula of
\* a ParameterizedExchange of 'lca4mdao' references a name that was stored
\* before the call and is not stored after it; undeletable: is_deletable of
\* the parameter was false before the call; symbols: every formula text
\* is its text before the call with the symbols equal to old replaced;
\* inside: a text that held old inside a longer identifier only is unchanged;
\* whole: a text was changed; for the exchanges of 'lca4mdao' after the call:
\* numeric: none has the amount None; wrote, dirty: the call saved every one,
\* marked the dataset of every one dirty; current: the amount of every one is
\* that of the parameter its formula names, None where there is none;
\* swallowed: the call saved None as an amount; stale: the call saved an
\* amount evaluated on a symbol table that it read while 'lca4mdao' was
\* expired; owner: 'lca4mdao' had a parameter before the call; lost: the record of an
\* exchange was gone; others: every exchange but that one was saved;
\* borrowed: the formulas named a name that no parameter of 'lca4mdao' had
\* before the call, and every such name is one of another layer;
\* held: the list the caller handed in and keeps, as the call left it;
\* second: the caller had handed in that list before; intact: the records of
\* that list have the keys and values they were handed in with;
\* frame: every parameter that was stored before the call under a name that
\* data does not have is stored with the formula it had, and with the amount
\* it had when it has no formula; carried: such a parameter has a formula and
\* a new amount;
\* plain: every parameter that has no formula has the amount it had before
\* the call;
\* chain, external: the names returned are the names the formulas of
\* 'lca4mdao' referenced, those of them that no parameter of 'lca4mdao' had;
\* supplied: the formulas referenced a name that no parameter of 'lca4mdao'
\* had, and every such name is one of another layer;
\* pushed: every exchange whose formula names a parameter without formula has
\* the amount compute was given for it; fed: one of them got a new amount
Report(op, c, data) ==
    [op |-> op, exc |-> c.exc, n |-> c.n, wr |-> c.wr, exp |-> c.exp,
     visits |-> c.visits, eval |-> c.eval, upAt |-> c.upAt,
     was |-> db.fresh[Mdao],
     again |-> stable,
     same |-> c.s.params = db.params,
     visible |-> Visible(c.s.params, data),
     chunked |-> Len(data) > ChunkSize,
     rolled |-> c.rolled,
     flags |-> c.s.fresh = db.fresh,
     upFlags |-> \A g \in Upstream : c.s.fresh[g] = db.fresh[g],
     overwrite |-> c.in.overwrite,
     update |-> c.in.update,
     dup |-> Cardinality(NamesOf(data)) # Len(data),
     hit |-> NamesOf(data) \cap Defined(db.params) # {},
     ownRef |-> c.in.p \in Needed(db.params),
     upRef |-> c.in.refs # {},
     taken |-> c.in.new \in Defined(db.params),
     moved |-> c.in.p # c.in.new,
     sound |-> EvalError(db.params) = NoExc,
     oldRef |-> c.in.p \in Needed(c.s.params),
     dangling |-> ~(Needed(db.params) \subseteq Defined(db.params)),
     result |-> c.ret,
     exRef |-> c.in.p \in db.exch,
     undeletable |-> LET a == IsDeletable(Enter(db, 0), c.in.p, c.in.refs)
                     IN c.in.p \in Stored /\ a.exc = NoExc /\ ~a.ret,
     orphaned |-> (c.s.exch \cap Defined(db.params)) \ Defined(c.s.params) # {},
     symbols |-> c.in.old # NoText =>
                    \A n \in Stored :
                       c.s.texts[n] = ReplaceSymbols(db.texts[n], c.in.old, c.in.to),
     inside |-> \E n \in Stored :
                    /\ c.in.old # NoText
                    /\ Contains(db.texts[n], c.in.old)
                    /\ c.in.old \notin SymbolsOf(db.texts[n])
                    /\ c.s.texts[n] = db.texts[n],
     whole |-> \E n \in Stored : c.s.texts[n] # db.texts[n],
     numeric |-> \A n \in c.s.exch : c.s.ext[n] # None,
     wrote |-> c.saved = c.s.exch,
     dirty |-> c.dirtied = c.s.exch,
     current |-> \A n \in c.s.exch :
                    c.s.ext[n] = IF n \in Defined(c.s.params)
                                 THEN c.s.params[n].amount ELSE None,
     swallowed |-> \E n \in c.saved : c.s.ext[n] = None,
     stale |-> c.stale /\ c.saved # {},
     owner |-> Defined(db.params) # {},
     lost |-> c.in.gone # NoName,
     others |-> c.s.exch \ {c.in.gone} \subseteq c.saved,
     borrowed |-> LET need == (Needed(db.params) \cup db.exch) \ Defined(db.params)
                  IN need # {} /\ need \subseteq c.in.anc,
     held |-> IF c.in.keep THEN c.arg ELSE <<>>,
     second |-> c.in.second,
     intact |-> c.in.keep => c.arg = data,
     frame |-> \A n \in Defined(db.params) \ NamesOf(data) :
                  /\ c.s.params[n] # Absent
                  /\ c.s.params[n].formula = db.params[n].formula
                  /\ db.params[n].formula = NoFormula
                         => c.s.params[n].amount = db.params[n].amount,
     carried |-> \E n \in Defined(db.params) \ NamesOf(data) :
                  /\ c.s.params[n] # Absent
                  /\ c.s.params[n].formula # NoFormula
                  /\ c.s.params[n].amount # db.params[n].amount,
     plain |-> \A n \in Defined(db.params) \cap Defined(c.s.params) :
                  (db.params[n].formula = NoFormula /\ c.s.params[n].formula = NoFormula)
                      => c.s.params[n].amount = db.params[n].amount,
     chain |-> c.names = Needed(db.params),
     external |-> c.names = Needed(db.params) \ Defined(db.params),
     supplied |-> LET need == Needed(db.params) \ Defined(db.params)
                  IN need # {} /\ need \subseteq c.in.anc,
     pushed |-> \A n \in c.s.exch \cap Defined(c.s.params) :
                    c.s.params[n].formula = NoFormula => c.s.ext[n] = inputs[n],
     fed |-> \E n \in c.s.exch \cap Defined(c.s.params) :
                    /\ c.s.params[n].formula = NoFormula
                    /\ c.s.ext[n] = inputs[n] /\ db.ext[n] # inputs[n]]

Done(op, outcome, data) ==
    \E c \in outcome :
        /\ db' = c.s
        /\ last' = Report(op, c, data)
        /\ stable' = (op = "recalculate_all" /\ c.exc = NoExc)
        /\ pc' = "returned"
        /\ UNCHANGED inputs

\* the caller has the report of the call
Resume ==
    /\ pc = "returned"
    /\ pc' = "idle"
    /\ last' = Report("none", Given([Enter(db, 0) EXCEPT !.arg = last.held],
                                    [NoArgs EXCEPT !.keep = TRUE]), <<>>)
    /\ UNCHANGED <<db, inputs, stable>>

NoInputs == [n \in Stored |-> 0]

Init ==
    /\ db = [params |-> [n \in Stored |-> Absent],
             fresh |-> [g \in GroupNames |-> IF g = Mdao THEN "none" ELSE "fresh"],
             deps |-> {}, exch |-> {}, ext |-> [n \in Names |-> 0],
             rows |-> [n \in Stored |-> 0],
             texts |-> [n \in Stored |-> NoText]]
    /\ pc = "idle"
    /\ inputs = NoInputs
    /\ stable = FALSE
    /\ last = Report("none", Enter(db, 0), <<>>)

NewMdaoParameters ==
    /\ pc = "idle"
    /\ \E data \in Batches, overwrite \in BOOLEAN, fail \in 0..MaxFail :
          /\ overwrite \/ fail = 0
          /\ Done("new_mdao_parameters",
                  {NewParameters(Given(Enter(db, fail), [NoArgs EXCEPT !.overwrite = overwrite]),
                                 data, overwrite)}, data)

\* new_mdao_parameter(lca_name, val): one record, overwrite=True
NewMdaoParameter ==
    /\ pc = "idle"
    /\ \E n \in Names, v \in 0..MaxAmount :
          LET data == <<[name |-> n, amount |-> v, formula |-> NoFormula]>>
          IN Done("new_mdao_parameter", {NewParameters(Enter(db, 0), data, TRUE)}, data)

CleanMdaoParameters ==
    /\ pc = "idle"
    /\ Done("clean_mdao_parameters", {Clean(Enter(db, 0))}, <<>>)

\* rename_mdao_parameter(parameter, new_name, update_dependencies) with
\* new_name taken from targets
RenameTo(targets) ==
    /\ pc = "idle"
    /\ \E p \in Defined(db.params), new \in targets, update \in BOOLEAN,
          refs \in SUBSET Upstream, bad \in Failures, fail \in 0..MaxFail :
          /\ fail = 0 \/ (bad = NoFailure /\ refs \in {{}, {Project}})
          /\ Done("rename_mdao_parameter",
                  {Rename(Given(Enter(db, fail),
                                [NoArgs EXCEPT !.update = update, !.p = p,
                                               !.new = new, !.refs = refs]),
                          p, new, update, refs, bad)}, <<>>)

RenameMdaoParameter == RenameTo(Names)

\* a rename to a name that no caller hands in otherwise
RenameToNewName == RenameTo(Stored \ Names)

ManagerRecalculate ==
    /\ pc = "idle"
    /\ \E bad \in Failures, fail \in 0..MaxFail :
          Done("recalculate_all", {RecalculateAll(Enter(db, fail), bad)}, <<>>)

MdaoRecalculate ==
    /\ pc = "idle"
    /\ \E fail \in 0..MaxFail :
          Done("recalculate", {Recalculate(Enter(db, fail))}, <<>>)

Save ==
    /\ pc = "idle"
    /\ \E n \in Names, a \in 0..MaxAmount, f \in Formulas, create \in BOOLEAN :
          /\ create \/ n \in Defined(db.params)
          /\ Done("save", {SaveRow(Enter(db, 0), n, [amount |-> a, formula |-> f], create)},
                  <<>>)

UpdateFormulaParameterName ==
    /\ pc = "idle"
    /\ \E old \in Names, new \in Names :
          Done("update_formula_parameter_name",
               {UpdateFormulaName(Enter(db, 0), old, new)}, <<>>)

\* compute, lines 30-34: the push commits
ComputePush ==
    /\ pc = "idle"
    /\ \E in \in [Stored -> 0..MaxAmount] :
          LET c == Push(Enter(db, 0), in)
          IN /\ db' = c.s
             /\ inputs' = in
             /\ last' = Report("compute", c, <<>>)
             /\ pc' = "pushed"
             /\ stable' = FALSE

\* compute, lines 35-36
ComputeRecalculate ==
    /\ pc = "pushed"
    /\ \E order \in Orders(db.exch), gone \in db.exch \cup {NoName} :
       LET c == ExpireAndRecalculate(
                    Given([Enter(db, 0) EXCEPT !.wr = last.wr],
                          [NoArgs EXCEPT !.gone = gone]), order)
       IN /\ db' = c.s
          /\ last' = [Report("compute", c, <<>>) EXCEPT !.was = last.was]
          /\ pc' = "returned"
          /\ inputs' = NoInputs
          /\ stable' = FALSE

GwpCompute ==
    /\ pc = "idle"
    /\ \E bad \in {f \in Failures : f[1] \in {"nobody", Database, Activity}} :
          Done("new_database_parameters", {DatabasePush(Enter(db, 0), bad)}, <<>>)

AddExchangesToGroup ==
    /\ pc = "idle"
    /\ \E g \in {Activity, Mdao} :
          Done("add_exchanges_to_group", {AddExchanges(Enter(db, 0), g)}, <<>>)

\* parameter.is_deletable() of a stored parameter
MdaoIsDeletable ==
    /\ pc = "idle"
    /\ \E p \in Defined(db.params), refs \in SUBSET Upstream :
          Done("is_deletable",
               {IsDeletable(Given(Enter(db, 0), [NoArgs EXCEPT !.p = p, !.refs = refs]),
                            p, refs)}, <<>>)

\* add_output(name, val, lca_key=..., lca_name=n)
ComponentAddOutput ==
    /\ pc = "idle"
    /\ \E n \in Names, v \in 0..MaxAmount :
          LET data == <<[name |-> n, amount |-> v, formula |-> NoFormula]>>
          IN Done("add_output", {AddOutput(Enter(db, 0), data)}, data)

\* MdaoParameter.update_formula_parameter_name(old, new) on formula texts
UpdateFormulaParameterText ==
    /\ pc = "idle"
    /\ \E old \in Idents, new \in Idents :
          Done("update_formula_parameter_name",
               {UpdateFormulaText(Given(Enter(db, 0), [NoArgs EXCEPT !.old = old, !.to = new]),
                                  old, new)}, <<>>)

\* MdaoParameter.recalculate_exchanges()
MdaoRecalculateExchanges ==
    /\ pc = "idle"
    /\ \E order \in Orders(db.exch), gone \in db.exch \cup {NoName},
          anc \in SUBSET Names :
          Done("recalculate_exchanges",
               {RecalculateExchanges(
                    Given(Enter(db, 0), [NoArgs EXCEPT !.gone = gone, !.anc = anc]),
                    order)}, <<>>)

\* MdaoParameter.dependency_chain(), while other layers have the names anc
MdaoDependencyChain ==
    /\ pc = "idle"
    /\ \E anc \in {{}, Names \cup {Undefined}} :
          Done("dependency_chain",
               {DependencyChain(Given(Enter(db, 0), [NoArgs EXCEPT !.anc = anc]))}, <<>>)

\* data = [...]; parameters.new_mdao_parameters(data): the caller keeps data
NewMdaoParametersKept ==
    /\ pc = "idle"
    /\ \E data \in Batches, overwrite \in BOOLEAN :
          Done("new_mdao_parameters",
               {NewParameters(Given(Enter(db, 0),
                                    [NoArgs EXCEPT !.overwrite = overwrite, !.keep = TRUE]),
                              data, overwrite)}, data)

\* parameters.new_mdao_parameters(data) with the list handed in before
NewMdaoParametersAgain ==
    /\ pc = "idle"
    /\ last.held # <<>>
    /\ Done("new_mdao_parameters",
            {NewParameters(Given(Enter(db, 0),
                                 [NoArgs EXCEPT !.keep = TRUE, !.second = TRUE]),
                           last.held, TRUE)}, last.held)

\* cleanup_parameters(), cleanup_parameters(safe)
CleanupParameters ==
    /\ pc = "idle"
    /\ \E safe \in BOOLEAN :
          Done("cleanup_parameters", {Cleanup(Enter(db, 0), safe)}, <<>>)

GroupDependencySave ==
    /\ pc = "idle"
    /\ Activity \notin db.deps
    /\ Done("group_dependency", {AddDependency(Enter(db, 0), Activity)}, <<>>)

Next ==
    \/ NewMdaoParameters
    \/ NewMdaoParameter
    \/ CleanMdaoParameters
    \/ RenameMdaoParameter
    \/ ManagerRecalculate
    \/ MdaoRecalculate
    \/ Save
    \/ UpdateFormulaParameterName
    \/ ComputePush
    \/ ComputeRecalculate
    \/ GwpCompute
    \/ AddExchangesToGroup
    \/ Resume

Spec == Init /\ [][Next]_vars

\* the store shared with a caller that declares an Activity group dependent on
\* 'lca4mdao'; no call of the repository writes such a row
NextDependency == Next \/ GroupDependencySave

SpecDependency == Init /\ [][NextDependency]_vars

\* the manager's calls on the parameters, with renames to a name of their own
NextRename ==
    \/ NewMdaoParameters
    \/ CleanMdaoParameters
    \/ RenameMdaoParameter
    \/ RenameToNewName
    \/ ManagerRecalculate
    \/ Resume

SpecRename == Init /\ [][NextRename]_vars


\* a component that declares outputs with an lca_key, and the manager's calls
\* on their parameters
NextExchanges ==
    \/ ComponentAddOutput
    \/ NewMdaoParameters
    \/ CleanMdaoParameters
    \/ RenameMdaoParameter
    \/ MdaoIsDeletable
    \/ ManagerRecalculate
    \/ Resume

SpecExchanges == Init /\ [][NextExchanges]_vars


\* a caller that ingests a list and ingests it again
NextRoundTrip ==
    \/ NewMdaoParametersKept
    \/ NewMdaoParametersAgain
    \/ CleanMdaoParameters
    \/ Resume

SpecRoundTrip == Init /\ [][NextRoundTrip]_vars

\* the calls that write formulas, and the dependency chain of what they leave
NextChain ==
    \/ NewMdaoParameters
    \/ Save
    \/ CleanMdaoParameters
    \/ MdaoDependencyChain
    \/ Resume

SpecChain == Init /\ [][NextChain]_vars

\* a component that declares outputs with an lca_key, and the calls that
\* write their exchanges
NextPush ==
    \/ ComponentAddOutput
    \/ Save
    \/ CleanMdaoParameters
    \/ ComputePush
    \/ ComputeRecalculate
    \/ ManagerRecalculate
    \/ MdaoRecalculateExchanges
    \/ Resume

SpecPush == Init /\ [][NextPush]_vars

\* a script that stores parameters and cleans them up
NextCleanup ==
    \/ NewMdaoParameters
    \/ CleanMdaoParameters
    \/ CleanupParameters
    \/ Resume

SpecCleanup == Init /\ [][NextCleanup]_vars

\* the formula texts of length up to k
RECURSIVE TextsUpTo(_)
TextsUpTo(k) ==
    IF k = 0 THEN {<<>>}
    ELSE LET shorter == TextsUpTo(k - 1)
         IN shorter \cup {Append(t, ch) : t \in shorter, ch \in Alphabet}

\* a store whose row 'wood' has any formula text and whose row 'steel' has
\* no formula or one that is a single name
InitTexts ==
    /\ \E a \in TextsUpTo(MaxText), b \in Idents \cup {NoText} :
          db = [params |-> [n \in Stored |-> Absent],
                fresh |-> [g \in GroupNames |-> "fresh"],
                deps |-> {}, exch |-> {}, ext |-> [n \in Names |-> 0],
             rows |-> [n \in Stored |-> 0],
                texts |-> [n \in Stored |-> IF n = "wood" THEN a
                                            ELSE IF n = "steel" THEN b ELSE NoText]]
    /\ pc = "idle"
    /\ inputs = NoInputs
    /\ stable = FALSE
    /\ last = Report("none", Enter(db, 0), <<>>)

NextTexts == UpdateFormulaParameterText \/ Resume

SpecTexts == InitTexts /\ [][NextTexts]_vars


(* ================================ claims ================================ *)
\* every parameter with a formula holds the value of its formula on the
\* group's own parameters
Consistent(P) ==
    \A n \in Defined(P) :
        P[n].formula # NoFormula => EvalError(P) = NoExc /\ P[n].amount = Value(P, n)

Returned(ops) == pc = "returned" /\ last.op \in ops

Ingests == {"new_mdao_parameters", "new_mdao_parameter"}

\* C1: after a bulk ingest, whatever statement of it the storage refused, the
\* parameters are either exactly what they were before the call or hold every
\* record of the batch; when the call raised they are what they were
C1_BulkIngestAllOrNothing ==
    Returned(Ingests) =>
        /\ last.same \/ last.visible
        /\ last.exc # NoExc => last.same
        /\ last.exc = NoExc => last.visible

\* a batch of two chunks whose second insert the storage refused
C1_Witness ==
    /\ Returned({"new_mdao_parameters"})
    /\ last.exc = "StorageFailure" /\ last.chunked /\ last.n = 3
    /\ last.same /\ ~last.visible


\* C2: a recompute writes the amounts and the flag together: after any call
\* that recomputed the group, Fresh comes with every recomputed amount, and a
\* MdaoParameter.recalculate whose write the storage refused leaves no amount
\* written and the group Expired
C2_RecomputeCommitsTogether ==
    /\ (pc = "returned" /\ last.eval /\ db.fresh[Mdao] = "fresh")
           => Consistent(db.params)
    /\ (Returned({"recalculate"}) /\ last.exc = "StorageFailure")
           => last.same /\ Expired(db)
    /\ (Returned({"recalculate"}) /\ last.eval /\ last.exc = NoExc)
           => db.fresh[Mdao] = "fresh"

\* the storage refused a later write of a recompute whose first write would
\* have changed an amount
C2_Witness ==
    /\ Returned({"recalculate"})
    /\ last.exc = "StorageFailure" /\ last.n >= 2
    /\ Expired(db) /\ ~Consistent(db.params)

\* C3 as claimed: between calls, a Fresh 'lca4mdao' has every formula amount
\* up to date and no other layer's group Expired
C3_FreshImpliesAncestorsFresh ==
    (pc \in {"idle", "returned"} /\ db.fresh[Mdao] = "fresh")
        => /\ Consistent(db.params)
           /\ \A g \in Upstream : ~UpExpired(db, g)

\* C3, amended: between calls, a Fresh 'lca4mdao' has every formula amount
\* equal to its formula evaluated on the group's own parameters
C3_FreshImpliesConsistent ==
    (pc \in {"idle", "returned"} /\ db.fresh[Mdao] = "fresh")
        => Consistent(db.params)

\* a Fresh group with a formula, after a push
C3_Witness ==
    /\ Returned({"compute"}) /\ last.wr
    /\ db.fresh[Mdao] = "fresh"
    /\ \E n \in Defined(db.params) : db.params[n].formula # NoFormula /\ db.params[n].amount > 0

\* C4: a call that wrote a formula, a name or a pushed amount has expired
\* 'lca4mdao' by the time it returns
C4_WritesExpire ==
    (pc = "returned" /\ last.wr) => last.exp

\* a rename that wrote the new name and returned
C4_Witness ==
    Returned({"rename_mdao_parameter"}) /\ last.wr /\ last.exp /\ last.exc = NoExc

\* C5: while compute runs, the pushed amounts are not committed with the
\* group still Fresh
C5_ExpireBeforeMutate ==
    (pc = "pushed" /\ last.wr) => db.fresh[Mdao] # "fresh"


Recalcs == {"recalculate_all", "rename_mdao_parameter"}

Rank(kind) ==
    CASE kind = "project" -> 1
      [] kind = "mdao" -> 2
      [] kind = "database" -> 3
      [] OTHER -> 4

C7_AncestorsFreshAtRecompute ==
    (pc = "returned" /\ last.eval) => last.upAt = {}

\* C7, amended: when recalculate_all recomputes 'lca4mdao', the Project group
\* has been recomputed already and is not Expired
C7_ProjectFreshAtRecompute ==
    (Returned(Recalcs) /\ last.eval) => Project \notin last.upAt

\* 'lca4mdao' recomputed by recalculate_all right after the Project group,
\* with the Database and Activity groups still Expired
C7_Witness ==
    /\ Returned(Recalcs) /\ last.eval /\ last.exc = NoExc
    /\ last.upAt = {Database, Activity}
    /\ Len(last.visits) >= 2 /\ last.visits[1] = "project" /\ last.visits[2] = "mdao"

C9_SecondRecalculateWritesNothing ==
    (Returned({"recalculate_all"}) /\ last.again) => last.n = 0 /\ last.same

\* the second of two recalculate_all calls in a row, over stored formulas
C9_Witness ==
    /\ Returned({"recalculate_all"}) /\ last.again /\ last.exc = NoExc
    /\ \E n \in Defined(db.params) : db.params[n].formula # NoFormula

\* C10 as claimed: when the recompute stops at a missing name, no amount is
\* written and 'lca4mdao' is Expired afterwards
C10_MissingNameLeavesExpired ==
    (pc = "returned" /\ last.eval /\ last.exc = "MissingName")
        => last.same /\ Expired(db)

\* C10, amended: when the recompute stops at a missing name no amount is
\* written; 'lca4mdao' is Expired afterwards when recalculate, recalculate_all
\* or compute ran the recompute, and has the flag it had before the call when
\* an ingest or a rename ran it, whose transaction is rolled back
C10_MissingNameWritesNothing ==
    (pc = "returned" /\ last.eval /\ last.exc = "MissingName")
        => /\ last.same
           /\ last.op \in {"recalculate", "recalculate_all", "compute"} => Expired(db)
           /\ last.op \in Ingests \cup {"rename_mdao_parameter"}
                  => db.fresh[Mdao] = last.was

\* an ingest of a formula over a missing name into a Fresh group
C10_Witness ==
    /\ Returned({"new_mdao_parameters"}) /\ last.eval /\ last.exc = "MissingName"
    /\ last.was = "fresh" /\ db.fresh[Mdao] = "fresh"

\* C11 as claimed: after a call whose transaction was rolled back,
\* 'lca4mdao' is Expired
C11_RolledBackLeavesExpired ==
    (pc = "returned" /\ last.rolled) => Expired(db)

\* C11, amended: after an ingest, a rename or a MdaoParameter.recalculate
\* whose transaction was rolled back, the parameters and every group's flag
\* are what they were before the call; an Expired group is still Expired
C11_RolledBackRestoresFlags ==
    (Returned(Ingests \cup {"rename_mdao_parameter", "recalculate"}) /\ last.rolled)
        => /\ last.exc # NoExc
           /\ last.same /\ last.flags
           /\ last.was = "expired" => Expired(db)

\* an ingest into a Fresh group refused by the storage after its expire
C11_Witness ==
    /\ Returned({"new_mdao_parameters"}) /\ last.rolled
    /\ last.exc = "StorageFailure" /\ last.n >= 4
    /\ last.was = "fresh" /\ db.fresh[Mdao] = "fresh"

\* C12: a bulk ingest of a batch that repeats a name raises the assertion
\* error before it executes any statement: no parameter and no flag changes
C12_DuplicateNameRejected ==
    (Returned({"new_mdao_parameters"}) /\ last.dup)
        => /\ last.exc = "AssertionError"
           /\ last.n = 0 /\ ~last.wr /\ ~last.exp
           /\ last.same /\ last.flags

\* a repeated name that is stored, handed in with overwrite, over a Fresh group
C12_Witness ==
    /\ Returned({"new_mdao_parameters"}) /\ last.dup /\ last.hit /\ last.overwrite
    /\ last.exc = "AssertionError" /\ db.fresh[Mdao] = "fresh"

\* C13: a bulk ingest with overwrite=False of a batch (without repeated
\* names) that holds a stored name raises ValueError before it executes any
\* statement: the parameters and the flags are what they were
C13_NameExistsRejected ==
    (Returned({"new_mdao_parameters"}) /\ ~last.overwrite /\ last.hit /\ ~last.dup)
        => /\ last.exc = "ValueError"
           /\ last.n = 0 /\ ~last.wr /\ ~last.exp
           /\ last.same /\ last.flags

\* a batch of a stored name and a new one, without overwrite
C13_Witness ==
    /\ Returned({"new_mdao_parameters"}) /\ ~last.overwrite /\ last.hit /\ ~last.dup
    /\ last.chunked /\ Cardinality(Defined(db.params)) = 1
    /\ last.exc = "ValueError"

\* C14 as claimed: after a bulk ingest that returned normally 'lca4mdao' is
\* Expired
C14_IngestLeavesExpired ==
    (Returned(Ingests) /\ last.exc = NoExc) => Expired(db)

\* C14, amended: a bulk ingest that returned normally has stored every record
\* of the batch, expired 'lca4mdao' and recomputed it: the group is Fresh with
\* every formula amount up to date, and is Expired only when no parameter is
\* stored
C14_IngestLeavesRecomputed ==
    (Returned(Ingests) /\ last.exc = NoExc)
        => /\ last.visible /\ last.exp
           /\ Defined(db.params) # {}
                  => db.fresh[Mdao] = "fresh" /\ Consistent(db.params)
           /\ Defined(db.params) = {} => Expired(db)

\* an overwrite of a stored name over a Fresh group, with a formula stored
C14_Witness ==
    /\ Returned({"new_mdao_parameters"}) /\ last.exc = NoExc
    /\ last.hit /\ last.overwrite /\ last.eval
    /\ db.fresh[Mdao] = "fresh"
    /\ \E n \in Defined(db.params) : db.params[n].formula # NoFormula

Mutations == {"save", "update_formula_parameter_name"}

\* C15 as claimed: once a call has written a formula, a name or a pushed
\* amount and no recompute has run, every group with a GroupDependency on
\* 'lca4mdao' is Expired
C15_DependentsExpiredAtMutation ==
    (pc = "returned" /\ last.wr /\ last.exc = NoExc /\ ~last.eval)
        => \A g \in db.deps : db.fresh[g] = "expired"

\* C15, amended: a write of a formula expires 'lca4mdao' and no other group;
\* the groups with a GroupDependency on 'lca4mdao' are Expired once
\* 'lca4mdao' has been recomputed (by MdaoParameter.recalculate, an ingest or
\* compute), and Fresh after a recalculate_all that recomputed 'lca4mdao' and
\* returned normally
C15_DependentsExpiredAtRecompute ==
    /\ Returned(Mutations) => last.upFlags
    /\ (Returned(Ingests \cup {"recalculate", "compute"}) /\ last.eval /\ last.exc = NoExc)
           => \A g \in db.deps : db.fresh[g] = "expired"
    /\ (Returned({"recalculate_all"}) /\ last.eval /\ last.exc = NoExc)
           => \A g \in db.deps \cup {Mdao} : db.fresh[g] = "fresh"

\* a push whose recompute expired the Activity group that depends on 'lca4mdao'
C15_Witness ==
    /\ Returned({"compute"}) /\ last.wr /\ last.eval /\ last.exc = NoExc
    /\ Activity \in db.deps /\ ~last.upFlags
    /\ db.fresh[Activity] = "expired" /\ db.fresh[Mdao] = "fresh"

Renames == {"rename_mdao_parameter"}

\* exceptions that come from the storage or from the other layers
Injected == {"StorageFailure", "DoesNotExist"} \cup {"MissingName:" \o g : g \in GroupNames}

C19_CascadeRenameRewritesOwnGroup ==
    (Returned(Renames) /\ last.update /\ last.moved /\ last.ownRef
        /\ ~last.taken /\ last.sound /\ last.exc \notin Injected)
        => last.exc = NoExc /\ ~last.oldRef

\* C20: a rename that raised, whatever step of it failed, has changed no
\* parameter and no flag
C20_RenameAllOrNothing ==
    (Returned(Renames) /\ last.exc # NoExc) => last.same /\ last.flags

\* the formulas of another layer were rewritten, then the new name collided
C20_Witness ==
    /\ Returned(Renames) /\ last.rolled /\ last.update /\ last.upRef
    /\ last.taken /\ last.exc = "IntegrityError" /\ last.n >= 3

\* C16: no call that removes parameters removes a name that the formula of a
\* ParameterizedExchange of 'lca4mdao' references
C16_NoReferencedNameRemoved ==
    Returned({"clean_mdao_parameters"}) => ~last.orphaned

\* C17: is_deletable returns false exactly when a formula of 'lca4mdao', the
\* formula of a ParameterizedExchange of 'lca4mdao' or a formula of another
\* layer references the parameter's name
C17_IsDeletableSeesEveryReference ==
    (Returned({"is_deletable"}) /\ last.exc = NoExc)
        => (last.result <=> ~(last.ownRef \/ last.exRef \/ last.upRef))

\* C21: update_formula_parameter_name(old, new) replaces old in every formula
\* where it is a whole symbol, leaves every other character of every formula
\* as it was, old inside a longer identifier included, and expires 'lca4mdao'
C21_WholeSymbolsRewritten ==
    Returned({"update_formula_parameter_name"})
        => last.exc = NoExc /\ last.symbols /\ Expired(db)

\* one formula held old inside a longer identifier only and is unchanged,
\* another held it as a symbol and was rewritten
C21_Witness ==
    /\ Returned({"update_formula_parameter_name"})
    /\ last.inside /\ last.whole /\ last.symbols /\ Expired(db)

ExchangeOps == {"recalculate_exchanges"}

\* C22 as claimed: the symbol table has the names of the other layers too, so
\* formulas that only need names of 'lca4mdao' or of another layer evaluate
C22_AncestorsInSymbolTable ==
    (Returned(ExchangeOps) /\ last.borrowed /\ ~last.lost)
        => last.exc = NoExc /\ last.numeric

\* C22, amended: the symbol table is the amounts of the parameters of
\* 'lca4mdao' and nothing else: an exchange gets the amount of the parameter
\* its formula names and None when 'lca4mdao' has no such parameter, whatever
\* the other layers define, and a recompute whose formulas name a parameter
\* that 'lca4mdao' does not have raises
C22_OwnSymbolTableOnly ==
    (Returned(ExchangeOps) /\ ~last.lost)
        => /\ last.exc = NoExc => last.wrote /\ last.current
           /\ (last.dangling /\ last.was = "expired") => last.exc # NoExc /\ last.same

\* an exchange formula names a parameter that only another layer has
C22_Witness ==
    /\ Returned(ExchangeOps) /\ last.borrowed /\ ~last.lost
    /\ last.exc = NoExc /\ last.wrote /\ last.current /\ ~last.numeric

\* C24: after a recalculate_all that returned normally every exchange of
\* 'lca4mdao' was saved with the amount of its formula and its dataset was
\* marked dirty
C24_RecalculateAllWritesExchanges ==
    (Returned({"recalculate_all"}) /\ last.exc = NoExc /\ db.exch # {})
        => last.wrote /\ last.dirty /\ last.current

\* C25: after a compute that returned normally, every exchange whose formula
\* names a parameter without formula has the amount pushed for that
\* parameter, and 'lca4mdao' is fresh
C25_PushReachesExchange ==
    (Returned({"compute"}) /\ last.exc = NoExc)
        => /\ last.pushed /\ last.wrote /\ last.dirty
           /\ db.exch \cap Defined(db.params) # {} => db.fresh[Mdao] = "fresh"

\* a pushed amount that the exchange did not have before
C25_Witness ==
    /\ Returned({"compute"}) /\ last.exc = NoExc
    /\ last.fed /\ last.pushed /\ db.fresh[Mdao] = "fresh"

\* C26: when the record of one exchange cannot be loaded, the other exchanges
\* of 'lca4mdao' are saved all the same
C26_OneFailureDoesNotBlockOthers ==
    (Returned(ExchangeOps) /\ last.lost /\ last.was # "expired") => last.others

\* C27: a call that returns normally has saved no exchange amount None
C27_NoErrorSwallowed ==
    (Returned(ExchangeOps \cup {"compute", "recalculate_all"}) /\ last.exc = NoExc)
        => ~last.swallowed

\* C23 as claimed: dependency_chain never fails and returns the names that
\* the formulas of 'lca4mdao' reference and no parameter of 'lca4mdao' has
C23_ChainIsExternalNames ==
    Returned({"dependency_chain"}) => last.exc = NoExc /\ last.external

\* C23, amended: dependency_chain returns the names that the formulas of
\* 'lca4mdao' reference, every one a parameter of 'lca4mdao'; when a formula
\* references a name that no parameter of 'lca4mdao' has it raises
\* MissingName, whether or not another layer has the name
C23_ChainIsReferencedNames ==
    Returned({"dependency_chain"})
        => /\ last.dangling => last.exc = "MissingName"
           /\ ~last.dangling => last.exc = NoExc /\ last.chain

\* the only name missing is one that another layer has
C23_Witness ==
    Returned({"dependency_chain"}) /\ last.supplied /\ last.exc = "MissingName"

\* C28: a recompute changes the amount of no parameter that has no formula
C28_PlainAmountsKept ==
    Returned({"recalculate", "recalculate_all"}) => last.plain

\* a recompute that gave a parameter with a formula a new amount
C28_Witness ==
    /\ Returned({"recalculate"}) /\ last.exc = NoExc /\ last.eval
    /\ ~last.same /\ last.plain
    /\ \E n \in Defined(db.params) : db.params[n].formula = NoFormula /\ db.params[n].amount > 0

\* C29: in every state that a call leaves, no two rows of mdaoparameter have
\* the same name
C29_NamesUnique ==
    \A n \in Stored : db.rows[n] = IF n \in Defined(db.params) THEN 1 ELSE 0

\* a rename to a name that another row has
C29_Witness ==
    /\ Returned(Renames) /\ last.taken /\ last.moved /\ last.exc = "IntegrityError"
    /\ \A n \in Stored : db.rows[n] <= 1

\* C30: an ingest of the list that an ingest before it was given and left
\* 'lca4mdao' recomputed returns normally and leaves the parameters as they
\* were
C30_ReingestSameResult ==
    (Returned(Ingests) /\ last.second /\ last.was = "fresh")
        => last.exc = NoExc /\ last.same

\* C31: a rename to another name without update_dependencies raises ValueError
\* exactly when is_deletable of the parameter is false in the store the
\* rename is called on
C31_RefusedIffNotDeletable ==
    (Returned(Renames) /\ ~last.update /\ last.moved)
        => (last.exc = "ValueError" <=> last.undeletable)

\* C32 as claimed: no amount that recalculate_exchanges saves is evaluated on
\* a symbol table read while 'lca4mdao' is expired
C32_TableReadWhileFresh ==
    Returned(ExchangeOps \cup {"compute"}) => ~last.stale

\* C32, amended: when 'lca4mdao' is expired and has parameters,
\* recalculate_exchanges recomputes them first and reads the symbol table
\* with the group fresh; when 'lca4mdao' is expired and has no parameter the
\* group stays expired, the symbol table is empty and every exchange is saved
\* with the amount None
C32_TableReadAfterRecompute ==
    Returned(ExchangeOps \cup {"compute"})
        => /\ last.stale => (~last.owner /\ Expired(db) /\ ~last.eval /\ ~last.numeric)
           /\ (Returned(ExchangeOps) /\ last.was = "expired" /\ last.owner
                   /\ last.exc = NoExc)
                  => last.eval /\ db.fresh[Mdao] = "fresh" /\ last.current

\* an expired group with a parameter, recomputed before its exchange was saved
C32_Witness ==
    /\ Returned(ExchangeOps) /\ last.was = "expired" /\ last.owner
    /\ last.exc = NoExc /\ last.eval /\ ~last.stale
    /\ db.exch # {} /\ last.wrote /\ db.fresh[Mdao] = "fresh"

\* C33: recalculate_all never applies ActivityParameter.recalculate and
\* ActivityParameter.recalculate_exchanges to the group 'lca4mdao'
C33_ActivityRecomputeSkipsMdao ==
    Returned(Recalcs) =>
        \A i \in DOMAIN last.visits : last.visits[i] # "activity:lca4mdao"

\* C34: MdaoParameter.recalculate commits the amounts, the freshen of
\* 'lca4mdao' and the expiry of every group with a GroupDependency on
\* 'lca4mdao' together or not at all, and a recalculate_all that recomputes
\* 'lca4mdao' recomputes such an Activity group after it, never before
C34_DependentsRecomputedAfter ==
    /\ (Returned({"recalculate"}) /\ last.eval /\ last.exc = NoExc)
           => db.fresh[Mdao] = "fresh" /\ \A g \in db.deps : db.fresh[g] = "expired"
    /\ (Returned({"recalculate"}) /\ last.eval /\ last.exc # NoExc)
           => last.same /\ last.flags
    /\ (Returned(Recalcs) /\ last.eval /\ Activity \in db.deps)
           => /\ \A i, j \in DOMAIN last.visits :
                    (last.visits[i] = "mdao" /\ last.visits[j] = "activity") => i < j
              /\ last.exc = NoExc
                    => \E j \in DOMAIN last.visits : last.visits[j] = "activity"

\* new amounts committed, then the Activity group that depends on 'lca4mdao'
\* recomputed, the Activity group having been fresh before the call
C34_Witness ==
    /\ Returned({"recalculate_all"}) /\ last.exc = NoExc /\ last.eval
    /\ ~last.same /\ Activity \in db.deps
    /\ last.upAt = {} /\ last.visits = <<"mdao", "activity">>
    /\ db.fresh[Activity] = "fresh"

\* C35: a bulk ingest deletes and replaces only the parameters whose names the
\* batch has: every other stored parameter keeps its name and its formula,
\* and its amount when it has no formula
C35_IngestFrame ==
    Returned(Ingests) => last.frame

\* an overwrite that stored its record and left a parameter outside the batch
\* with its formula and a recomputed amount
C35_Witness ==
    /\ Returned({"new_mdao_parameters"}) /\ last.exc = NoExc
    /\ last.overwrite /\ last.hit /\ last.visible
    /\ last.frame /\ last.carried

C37_CallerRecordsIntact ==
    Returned(Ingests) => last.intact

\* C38: cleanup_parameters returns normally and leaves no parameter stored
C38_CleanupEmptiesStore ==
    Returned({"cleanup_parameters"}) => last.exc = NoExc /\ Defined(db.params) = {}

=============================================================================
